---- MODULE Spec2Model ----
(***************************************************************************)
(* Model of the events API view layer (src/views.py, src/filters.py).      *)
(*                                                                         *)
(* Spec      : the NativeCache read path of the seven cached endpoints,    *)
(*             the refresh tasks they dispatch, and the per-view page      *)
(*             cache in front of SectionViewSet.list.                      *)
(* SpecQuery : get_queryset of EventViewSet and MapViewSet with the        *)
(*             curated-city resolver, over a table of cities and events.   *)
(* SpecFilter: the methods of EventFilter (when, since / until, radius,    *)
(*             price sections, is_curated) applied to tables of events.    *)
(***************************************************************************)
EXTENDS Integers, Sequences, FiniteSets, Bags, TLC

(***************************************************************************)
(* Bounds                                                                  *)
(***************************************************************************)
\* number of HTTP requests served in one behaviour
MaxRequests == 2

(***************************************************************************)
(* Cache keys                                                              *)
(***************************************************************************)
URL_CATEGORIES == "/v2/events/categories_paginated/"
URL_WHEN == "/v2/events/when_paginated/"
URL_PRICES == "/v2/events/prices_paginated/"
URL_SECTIONS == "/v2/sections/"
URL_MOBILE == "/v2/sections/mobile/"
URL_DESKTOP == "/v2/sections/desktop/"
URL_STATE == "/v2/state/sections/"

Urls ==
    {URL_CATEGORIES, URL_WHEN, URL_PRICES, URL_SECTIONS, URL_MOBILE,
     URL_DESKTOP, URL_STATE}

\* The remaining key dimensions of a request (city, radius, page_no,
\* page_size / platform, page_type, tab, state) taken together.
Dims == {"d1", "d2"}

Keys == [url : Urls, d : Dims]

\* Every NativeCache lookup filters on its own url, so requests to
\* different URLs touch disjoint rows; only the state list reaches another
\* URL's rows (through super().list). A behaviour sends its requests to
\* one URL, and Rows(site) are the rows those requests can read.
Rows(url) ==
    {k \in Keys : k.url = url \/ (url = URL_STATE /\ k.url = URL_SECTIONS)}

\* The rows that may exist when a behaviour starts: by the symmetry of the
\* key dimensions, the URL's own row of one value of them.
SeedRows(url) == {k \in Rows(url) : k.url = url /\ k.d = "d1"}

Key(url, d) == [url |-> url, d |-> d]

NoKey == [url |-> "", d |-> ""]

\* The contents of the event, section and bucket tables, as far as a
\* serialized response shows them.
DataVers == {"v0", "v1"}

\* A serialized response payload: the key it was computed for, the data it
\* was computed from, and whether the bucket list it serializes holds the
\* happening-later bucket.
Payloads == [k : Keys, ver : DataVers, hl : BOOLEAN]

NoPayload == [k |-> NoKey, ver |-> "", hl |-> FALSE]

NoEntry == [present |-> FALSE, payload |-> NoPayload, stale |-> FALSE]

\* A refresh task in the queue: the key it upserts, the key whose lookup
\* dispatched it, and the bucket list it was given.
Tasks == [k : Keys, origin : Keys, hl : BOOLEAN]

VARIABLES
    cache,      \* NativeCache rows: Keys -> entry
    queue,      \* dispatched refresh tasks not yet started (a bag)
    running,    \* started tasks holding a computed payload (a bag)
    ver,        \* the current contents of the underlying data
    inflight,   \* categories_paginated requests between their two lookups
    resp,       \* the response completed by the last step, if any
    hist,       \* per key, stale reads and dispatches of the current window
    lastWrite,  \* per key, payload of the last completed refresh write
    nreq,       \* requests served so far
    site,       \* the URL this behaviour's requests go to
    curated,    \* City.is_curated, per city slug
    qres,       \* what the last get_queryset / resolver call returned
    fres        \* what the last EventFilter method call returned

vars ==
    <<cache, queue, running, ver, inflight, resp, hist, lastWrite, nreq,
      site, curated, qres, fres>>

\* the variables of the cache read path
cvars ==
    <<cache, queue, running, ver, inflight, resp, hist, lastWrite, nreq,
      site>>

\* the variables of the query path
qvars == <<curated, qres>>

(***************************************************************************)
(* Lookup helpers                                                          *)
(***************************************************************************)
\* core.utils.is_refresh_cache: whether the entry's TTL has elapsed.
IsRefreshCache(e) == e.stale

\* NativeCache.objects.filter(...).exists() / .first() / is_refresh_cache
Found(k) ==
    IF ~cache[k].present THEN "miss"
    ELSE IF IsRefreshCache(cache[k]) THEN "stale"
    ELSE "fresh"

\* The result of the view's uncached path: serialized from the live data.
SyncPayload(k, hl) == [k |-> k, ver |-> ver, hl |-> hl]

\* the task given another row's key dimensions
TaskOtherDims(k, hl) ==
    [k |-> Key(k.url, CHOOSE d \in Dims : d # k.d), origin |-> k, hl |-> hl]

\* The arguments a handler passes to <task>.delay(...): the same key
\* dimensions as its lookup.
Task(k, hl) == [k |-> k, origin |-> k, hl |-> hl]

NoRead == {}

ReadOf(k, sent, failed) ==
    [k |-> k, f |-> Found(k), stored |-> cache[k].payload, sent |-> sent,
     failed |-> failed]

\* One lookup of key k by a view whose uncached result is keyed by self:
\* `send` says whether .delay() is called, `cached` whether cache.response
\* is returned; ok says whether the task broker accepts the dispatch
\* (.delay() raises otherwise and the exception leaves the view).
Outcome(k, self, send, cached, hl, ok) ==
    IF send /\ ~ok
    THEN [reads |-> {ReadOf(k, FALSE, TRUE)}, body |-> NoPayload,
          src |-> "error", failed |-> TRUE, tasks |-> {}]
    ELSE [reads |-> {ReadOf(k, send, FALSE)},
          body |-> IF cached THEN cache[k].payload ELSE SyncPayload(self, hl),
          src |-> IF cached THEN "cache" ELSE "sync",
          failed |-> FALSE,
          tasks |-> IF send THEN {Task(k, hl)} ELSE {}]

\* The view answers without consulting NativeCache.
Uncached(self, hl) ==
    [reads |-> NoRead, body |-> SyncPayload(self, hl), src |-> "sync",
     failed |-> FALSE, tasks |-> {}]

NoResp ==
    [ep |-> "", d |-> "", reads |-> NoRead, body |-> NoPayload, src |-> "none",
     failed |-> FALSE, sent |-> {}, dv |-> ""]

ZeroHist == [reads |-> 0, disp |-> 0, failed |-> 0]

\* The state change common to every completed request.
Complete(url, d, out) ==
    /\ resp' = [ep |-> url, d |-> d, reads |-> out.reads, body |-> out.body,
                src |-> out.src, failed |-> out.failed,
                sent |-> {t.k : t \in out.tasks}, dv |-> ver]
    /\ queue' = queue (+) SetToBag(out.tasks)
    /\ hist' = [x \in Keys |->
                  IF \E r \in out.reads : r.k = x /\ r.f = "stale"
                  THEN LET r == CHOOSE r \in out.reads : r.k = x
                       IN [reads |-> hist[x].reads + 1,
                           disp |-> hist[x].disp + (IF r.sent THEN 1 ELSE 0),
                           failed |-> hist[x].failed
                                        + (IF r.failed THEN 1 ELSE 0)]
                  ELSE hist[x]]
    /\ UNCHANGED <<cache, running, ver, lastWrite>>

(***************************************************************************)
(* EventViewSet.categories_paginated                                       *)
(***************************************************************************)
CategoriesDelay(f) == f \in {"miss", "stale"}

CategoriesCached(f) == f \in {"fresh", "stale"}

\* First lookup: a fresh entry is returned at once; otherwise the handler
\* goes on to build the category page and looks the key up again.
CategoriesPaginated(d) ==
    LET k == Key(URL_CATEGORIES, d)
        f == Found(k)
    IN /\ nreq < MaxRequests
       /\ site = k.url
       /\ d \notin inflight
       /\ nreq' = nreq + 1
       /\ IF f = "fresh"
          THEN /\ Complete(URL_CATEGORIES, d, Outcome(k, k, FALSE, TRUE, FALSE, TRUE))
               /\ UNCHANGED <<inflight, site, curated, qres, fres>>
          ELSE /\ inflight' = inflight \cup {d}
               /\ resp' = NoResp
               /\ UNCHANGED <<cache, queue, running, ver, hist,
                              lastWrite, site, curated, qres, fres>>

\* Second lookup, after paginate_queryset.
CategoriesPaginatedPage(d, ok) ==
    LET k == Key(URL_CATEGORIES, d)
        f == Found(k)
    IN /\ d \in inflight
       /\ inflight' = inflight \ {d}
       /\ Complete(URL_CATEGORIES, d,
                   Outcome(k, k, CategoriesDelay(f), CategoriesCached(f), FALSE, ok))
       /\ UNCHANGED <<nreq, site, curated, qres, fres>>

(***************************************************************************)
(* EventViewSet.when_paginated, prices_paginated                           *)
(***************************************************************************)
WhenDelay(f) == f \in {"miss", "stale"}

\* cache.response returned whether or not a row was found
WhenCachedAlways(f) == TRUE

WhenCached(f) == f \in {"fresh", "stale"}

\* The bucket list holds happening-later unless registered_user=true.
WhenBuckets(registered_user) == ~registered_user

WhenPaginated(d, registered_user, ok) ==
    LET k == Key(URL_WHEN, d)
        f == Found(k)
    IN /\ nreq < MaxRequests
       /\ site = k.url
       /\ nreq' = nreq + 1
       /\ Complete(URL_WHEN, d,
                   Outcome(k, k, WhenDelay(f), WhenCached(f),
                           WhenBuckets(registered_user), ok))
       /\ UNCHANGED <<inflight, site, curated, qres, fres>>

\* no refresh dispatched for a row that exists
PricesDelayMissOnly(f) == f = "miss"

PricesDelay(f) == f \in {"miss", "stale"}

PricesCached(f) == f \in {"fresh", "stale"}

PricesPaginated(d, ok) ==
    LET k == Key(URL_PRICES, d)
        f == Found(k)
    IN /\ nreq < MaxRequests
       /\ site = k.url
       /\ nreq' = nreq + 1
       /\ Complete(URL_PRICES, d,
                   Outcome(k, k, PricesDelay(f), PricesCached(f), FALSE, ok))
       /\ UNCHANGED <<inflight, site, curated, qres, fres>>

(***************************************************************************)
(* SectionViewSet.list (behind cache_page), mobile, desktop                *)
(***************************************************************************)
\* The body of a response served by the page cache: whatever an earlier
\* request to the same URL was answered with.
PagePayload == [k |-> NoKey, ver |-> "", hl |-> FALSE]

\* a refresh dispatched on every lookup
ListDelayAlways(f) == TRUE

ListDelay(f) == f \in {"miss", "stale"}

ListCached(f) == f \in {"fresh", "stale"}

\* The body of SectionViewSet.list, run for the view at `url` (the class
\* itself or its subclass StateSectionViewSet through super().list).
ListBody(url, d, city, cache_refresh, ok) ==
    IF ~cache_refresh /\ city
    THEN LET k == Key(URL_SECTIONS, d)
             f == Found(k)
         IN Outcome(k, Key(url, d), ListDelay(f), ListCached(f), FALSE, ok)
    ELSE Uncached(Key(url, d), FALSE)

\* cache_page(60*5): when the page cache holds a response stored for the
\* request's URL in the last five minutes (`page`), it answers the request
\* and the view body does not run.
CachePage(page, out) ==
    IF page
    THEN [reads |-> NoRead, body |-> PagePayload, src |-> "page",
          failed |-> FALSE, tasks |-> {}]
    ELSE out

SectionList(d, city, cache_refresh, page, ok) ==
    LET out == CachePage(page,
                         ListBody(URL_SECTIONS, d, city, cache_refresh, ok))
    IN /\ nreq < MaxRequests
       /\ site = URL_SECTIONS
       /\ nreq' = nreq + 1
       /\ Complete(URL_SECTIONS, d, out)
       /\ UNCHANGED <<inflight, site, curated, qres, fres>>

MobileDelay(f) == f \in {"miss", "stale"}

MobileCached(f) == f \in {"fresh", "stale"}

SectionMobile(d, ok) ==
    LET k == Key(URL_MOBILE, d)
        f == Found(k)
    IN /\ nreq < MaxRequests
       /\ site = k.url
       /\ nreq' = nreq + 1
       /\ Complete(URL_MOBILE, d,
                   Outcome(k, k, MobileDelay(f), MobileCached(f), FALSE, ok))
       /\ UNCHANGED <<inflight, site, curated, qres, fres>>

DesktopDelay(f) == f = "stale"

DesktopCached(f) == f \in {"fresh", "stale"}

SectionDesktop(d, cache_refresh, ok) ==
    LET k == Key(URL_DESKTOP, d)
        f == Found(k)
    IN /\ nreq < MaxRequests
       /\ site = k.url
       /\ nreq' = nreq + 1
       /\ Complete(URL_DESKTOP, d,
                   IF cache_refresh THEN Uncached(k, FALSE)
                   ELSE Outcome(k, k, DesktopDelay(f), DesktopCached(f), FALSE, ok))
       /\ UNCHANGED <<inflight, site, curated, qres, fres>>

(***************************************************************************)
(* StateSectionViewSet.list                                                *)
(***************************************************************************)
StateDelay(f) == f \in {"miss", "stale"}

StateCached(f) == f = "fresh"

\* The handler's own lookup, then super().list: SectionViewSet.list behind
\* its page cache, for the same request.
StateOutcome(d, city, cache_refresh, page, ok) ==
    LET k == Key(URL_STATE, d)
        f == Found(k)
        own == Outcome(k, k, StateDelay(f), StateCached(f), FALSE, ok)
        inner == CachePage(page,
                           ListBody(URL_STATE, d, city, cache_refresh, ok))
    IN IF cache_refresh THEN inner
       ELSE IF StateCached(f) \/ own.failed THEN own
       ELSE [reads |-> own.reads \cup inner.reads, body |-> inner.body,
             src |-> inner.src, failed |-> inner.failed,
             tasks |-> own.tasks \cup inner.tasks]

StateSectionList(d, city, cache_refresh, page, ok) ==
    /\ nreq < MaxRequests
    /\ site = URL_STATE
    /\ nreq' = nreq + 1
    /\ Complete(URL_STATE, d, StateOutcome(d, city, cache_refresh, page, ok))
    /\ UNCHANGED <<inflight, site, curated, qres, fres>>

(***************************************************************************)
(* Refresh tasks (core.tasks), time and data                               *)
(***************************************************************************)
\* A worker takes a task and recomputes the payload from the live data.
TaskStart(t) ==
    /\ BagIn(t, queue)
    /\ queue' = queue (-) SetToBag({t})
    /\ running' = running (+) SetToBag({[k |-> t.k, origin |-> t.origin,
                      payload |-> [k |-> t.k, ver |-> ver, hl |-> t.hl]]})
    /\ resp' = NoResp
    /\ UNCHANGED <<cache, ver, inflight, hist, lastWrite, nreq, site, curated, qres, fres>>

\* The worker upserts the row of its key and restarts the row's TTL.
TaskWrite(r) ==
    /\ BagIn(r, running)
    /\ running' = running (-) SetToBag({r})
    /\ cache' = [cache EXCEPT ![r.k] =
                    [present |-> TRUE, payload |-> r.payload, stale |-> FALSE]]
    /\ lastWrite' = [lastWrite EXCEPT ![r.k] = r.payload]
    /\ hist' = [hist EXCEPT ![r.k] = ZeroHist]
    /\ resp' = NoResp
    /\ UNCHANGED <<queue, ver, inflight, nreq, site, curated, qres, fres>>

\* The TTL of a row elapses.
Expire(k) ==
    /\ cache[k].present
    /\ ~cache[k].stale
    /\ cache' = [cache EXCEPT ![k].stale = TRUE]
    /\ hist' = [hist EXCEPT ![k] = ZeroHist]
    /\ resp' = NoResp
    /\ UNCHANGED <<queue, running, ver, inflight, lastWrite, nreq, site, curated, qres, fres>>

\* Events, sections or buckets change in the database.
DataChange ==
    /\ ver' \in DataVers \ {ver}
    /\ resp' = NoResp
    /\ UNCHANGED <<cache, queue, running, inflight, hist,
                   lastWrite, nreq, site, curated, qres, fres>>

(***************************************************************************)
(* Query path: cities, events and the request parameters                   *)
(***************************************************************************)
\* EventFilter radius tokens (RADIUS_CHOICES)
FIVE_MILE == "mile-5"
TWENTY_FIVE_MILE == "mile-25"
FIFTY_MILE == "mile-50"
HUNDRED_MILE == "mile-100"
HUNDRED_PLUS_MILE == "mile-100-plus"
ONE_HUNDRED_FIFTY_MILE == "mile-150"
TWO_HUNDRED_MILE == "mile-200"
TWO_HUNDRED_FIFTY_MILE == "mile-250"
THREE_HUNDRED_MILE == "mile-300"
THREE_HUNDRED_FIFTY_MILE == "mile-350"

RADIUS_CHOICES ==
    {FIVE_MILE, TWENTY_FIVE_MILE, FIFTY_MILE, HUNDRED_MILE, HUNDRED_PLUS_MILE,
     ONE_HUNDRED_FIFTY_MILE, TWO_HUNDRED_MILE, TWO_HUNDRED_FIFTY_MILE,
     THREE_HUNDRED_MILE, THREE_HUNDRED_FIFTY_MILE}

PAST_EVENTS == "past"

\* a query parameter the request does not carry
None == "None"

\* The City table: slugs, and each city's point as miles along one road.
\* Round Rock and San Marcos lie equally far from Austin; San Antonio lies
\* between 100 and 150 miles from it.
CLEARWATER == "clearwater-florida-united-states"
TAMPA_BAY == "tampa-bay-florida-united-states"
AUSTIN == "austin-texas"
ROUND_ROCK == "round-rock-texas"
SAN_MARCOS == "san-marcos-texas"
SAN_ANTONIO == "san-antonio-texas"

Cities == {CLEARWATER, TAMPA_BAY, AUSTIN, ROUND_ROCK, SAN_MARCOS, SAN_ANTONIO}

\* a slug City.objects.get(slug=...) does not find
UNKNOWN_CITY == "atlantis"

point ==
    (CLEARWATER :> 0) @@ (TAMPA_BAY :> 20) @@ (AUSTIN :> 1200) @@
    (ROUND_ROCK :> 1220) @@ (SAN_MARCOS :> 1180) @@ (SAN_ANTONIO :> 1080) @@
    ("st-petersburg-florida-united-states" :> 30) @@
    ("largo-florida-united-states" :> 15)

\* Distance("point", point), in miles
Distance(a, b) ==
    IF point[a] >= point[b] THEN point[a] - point[b] ELSE point[b] - point[a]

\* core.utils.get_tampa(): the slugs of the fallback metro cluster; the two
\* besides CLEARWATER are only rows of the City table of filter_radius
get_tampa ==
    {CLEARWATER, "st-petersburg-florida-united-states",
     "largo-florida-united-states"}

\* The Event table.  locs: the cities of the event's locations; visible:
\* the event passes the publication conditions of viewable(); time: where
\* now falls relative to the event; match: how the event's name and
\* description relate to the searched text.
Times == {"past", "running", "upcoming"}

Matches == {"ft", "prefix", "trigram", "contains", "none"}

Event(locs, is_featured, is_staff_picked, visible, time, match) ==
    [locs |-> locs, is_featured |-> is_featured,
     is_staff_picked |-> is_staff_picked, visible |-> visible,
     time |-> time, match |-> match]

Events ==
    \* per city: promoted and plain events, published or not, at all times
    {Event({c}, f, s, v, t, "none") :
        c \in Cities, f \in BOOLEAN, s \in BOOLEAN, v \in BOOLEAN, t \in Times}
    \cup
    \* events with two locations, and with none
    {Event(l, f, FALSE, TRUE, "upcoming", "none") :
        l \in {{ROUND_ROCK, SAN_ANTONIO}, {AUSTIN, SAN_MARCOS}, {}},
        f \in BOOLEAN}
    \cup
    \* events the searched text matches
    {Event({c}, f, FALSE, TRUE, t, m) :
        c \in {AUSTIN, SAN_ANTONIO}, f \in BOOLEAN,
        t \in {"past", "upcoming"}, m \in Matches \ {"none"}}

Promoted(e) == e.is_featured \/ e.is_staff_picked

\* Event.objects.viewable(past_events=...)
viewable(queryset, past_events) ==
    {e \in queryset :
        e.visible /\ (IF past_events THEN e.time = "past" ELSE e.time # "past")}

\* queryset.filter(start_date__gte=timezone.now())
Upcoming(queryset) == {e \in queryset : e.time = "upcoming"}

\* the searched texts: none, one of two characters, one of four
SearchValues == {<<>>, <<"r", "o">>, <<"r", "o", "c", "k">>}

Params ==
    [city : Cities \cup {UNKNOWN_CITY, None},
     radius : RADIUS_CHOICES \cup {None},
     what : BOOLEAN,
     search : SearchValues,
     when : {None, PAST_EVENTS}]

(***************************************************************************)
(* Curated-city resolver                                                   *)
(***************************************************************************)
ResolverTokens ==
    {FIVE_MILE, TWENTY_FIVE_MILE, FIFTY_MILE, HUNDRED_MILE, HUNDRED_PLUS_MILE}

\* the if / elif chain of get_nearest_curated_city
ResolverMiles(radius) ==
    CASE radius = FIVE_MILE -> 5
      [] radius = TWENTY_FIVE_MILE -> 25
      [] radius = FIFTY_MILE -> 50
      [] radius = HUNDRED_MILE -> 100
      [] radius = HUNDRED_PLUS_MILE -> 10000

\* the chain with mile-100-plus on the branch of mile-100
FilterMilesPlusAsHundred(radius) ==
    CASE radius = FIVE_MILE -> 5
      [] radius = TWENTY_FIVE_MILE -> 25
      [] radius = FIFTY_MILE -> 50
      [] radius \in {HUNDRED_MILE, HUNDRED_PLUS_MILE} -> 100
      [] radius = ONE_HUNDRED_FIFTY_MILE -> 150
      [] radius = TWO_HUNDRED_MILE -> 200
      [] radius = TWO_HUNDRED_FIFTY_MILE -> 250
      [] radius = THREE_HUNDRED_MILE -> 300
      [] radius = THREE_HUNDRED_FIFTY_MILE -> 350

\* the if / elif chain of EventFilter.filter_radius, in miles
FilterMiles(radius) ==
    CASE radius = FIVE_MILE -> 5
      [] radius = TWENTY_FIVE_MILE -> 25
      [] radius = FIFTY_MILE -> 50
      [] radius = HUNDRED_MILE -> 100
      [] radius \in {ONE_HUNDRED_FIFTY_MILE, HUNDRED_PLUS_MILE} -> 150
      [] radius = TWO_HUNDRED_MILE -> 200
      [] radius = TWO_HUNDRED_FIFTY_MILE -> 250
      [] radius = THREE_HUNDRED_MILE -> 300
      [] radius = THREE_HUNDRED_FIFTY_MILE -> 350

\* The orders in which order_by('distance') may return the cities of S:
\* ascending, cities equally far in either order.
RECURSIVE OrderByDistance(_, _)
OrderByDistance(city, S) ==
    IF S = {} THEN {<<>>}
    ELSE LET firsts == {c \in S : \A o \in S : Distance(city, c) <= Distance(city, o)}
         IN  UNION {{<<c>> \o rest : rest \in OrderByDistance(city, S \ {c})} :
                     c \in firsts}

\* what get_nearest_curated_city returns: False, or a queryset of cities
ResolverFalse == [resolved |-> FALSE, cities |-> <<>>]

Resolved(cities) == [resolved |-> TRUE, cities |-> cities]

\* EventViewSet / MapViewSet.get_nearest_curated_city: the set of values the
\* call may return
get_nearest_curated_city(city, radius) ==
    IF radius \notin ResolverTokens THEN {ResolverFalse}
    ELSE LET cities == {c \in Cities :
                          curated[c] /\ Distance(city, c) <= ResolverMiles(radius)}
         IN  IF cities = {} /\ city \in get_tampa
             THEN {Resolved(<<TAMPA_BAY>>)}
             ELSE {Resolved(o) : o \in OrderByDistance(city, cities)}

Range(seq) == {seq[i] : i \in DOMAIN seq}

(***************************************************************************)
(* Search                                                                  *)
(***************************************************************************)
is_search(p) == p.search # <<>>

Matching(queryset, ms) == {e \in queryset : e.match \in ms}

FirstNonEmpty(a, b) == IF a # {} THEN a ELSE b

\* filter_search with the length test one character lower
EventFilterSearchMinTwo(queryset, value) ==
    IF Len(value) < 2 THEN {}
    ELSE FirstNonEmpty(Matching(queryset, {"ft", "prefix"}),
         FirstNonEmpty(Matching(queryset, {"prefix"}),
         FirstNonEmpty(Matching(queryset, {"ft", "prefix", "trigram"}),
                       Matching(queryset, {"ft", "prefix", "contains"}))))

\* EventViewSet.filter_search: full text, name prefix, trigram, substring
EventFilterSearch(queryset, value) ==
    IF Len(value) < 3 THEN {}
    ELSE FirstNonEmpty(Matching(queryset, {"ft", "prefix"}),
         FirstNonEmpty(Matching(queryset, {"prefix"}),
         FirstNonEmpty(Matching(queryset, {"ft", "prefix", "trigram"}),
                       Matching(queryset, {"ft", "prefix", "contains"}))))

\* MapViewSet.filter_search: full text, name prefix, substring
MapFilterSearch(queryset, value) ==
    IF Len(value) < 3 THEN {}
    ELSE FirstNonEmpty(Matching(queryset, {"ft", "prefix"}),
         FirstNonEmpty(Matching(queryset, {"prefix"}),
                       Matching(queryset, {"ft", "prefix", "contains"})))

\* search_events of either view set
search_events(view, p) ==
    LET events == viewable(Events, p.when = PAST_EVENTS)
    IN  IF view = "event" THEN EventFilterSearch(events, p.search)
        ELSE MapFilterSearch(events, p.search)

(***************************************************************************)
(* get_queryset                                                            *)
(***************************************************************************)
\* the branch on the resolver's value inside "if not is_curated"
Curation(qs, curated_city) ==
    IF ~curated_city.resolved \/ curated_city.cities = <<>>
    THEN {e \in qs : ~e.is_featured /\ ~e.is_staff_picked}
    ELSE LET others == Range(Tail(curated_city.cities))
         IN  {e \in qs : ~(Promoted(e) /\ e.locs \cap others # {})}

NoCandidates == [called |-> FALSE, resolved |-> FALSE, cities |-> <<>>]

Called(c) == [called |-> TRUE, resolved |-> c.resolved, cities |-> c.cities]

Result(view, p, events, order, cands) ==
    [view |-> view, p |-> p, events |-> events, order |-> order,
     cands |-> cands]

\* the "if city_slug:" block shared by both get_queryset methods: the
\* (queryset, resolver value) pairs it may leave
CityBlock(qs, city_slug, radius) ==
    IF city_slug \in Cities /\ ~curated[city_slug]
    THEN {<<Curation(qs, c), Called(c)>> :
             c \in get_nearest_curated_city(city_slug, radius)}
    ELSE {<<qs, NoCandidates>>}

\* EventViewSet.get_queryset: the results the call may return
EventGetQueryset(p) ==
    LET radius == IF p.radius = None THEN HUNDRED_PLUS_MILE ELSE p.radius
        queryset == Events
        base == viewable(queryset, p.when = PAST_EVENTS)
    IN  IF is_search(p)
        THEN {Result("event", p, search_events("event", p), "none", NoCandidates)}
        ELSE {Result("event", p,
                     IF p.what THEN Upcoming(queryset) ELSE b[1],
                     "start_date", b[2]) :
                 b \in CityBlock(base, p.city, radius)}

\* MapViewSet.get_queryset: the results the call may return
MapGetQueryset(p) ==
    LET base == viewable(Events, p.when = PAST_EVENTS)
    IN  IF is_search(p)
        THEN {Result("map", p, search_events("map", p), "none", NoCandidates)}
        ELSE {Result("map", p, b[1],
                     IF p.when = PAST_EVENTS THEN "-end_date" ELSE "none", b[2]) :
                 b \in CityBlock(base, p.city, p.radius)}

NoQuery ==
    [view |-> "none",
     p |-> [city |-> None, radius |-> None, what |-> FALSE, search |-> <<>>,
            when |-> None],
     events |-> {}, order |-> "none", cands |-> NoCandidates]

\* GET /v2/events/ : the list view evaluates get_queryset; requests are
\* served one at a time and share no state
EventList(p) ==
    /\ qres = NoQuery
    /\ qres' \in EventGetQueryset(p)
    /\ UNCHANGED <<curated, fres, cvars>>

\* GET /v2/map/ ; the map view set does not read "what"
MapList(p) ==
    /\ qres = NoQuery
    /\ ~p.what
    /\ qres' \in MapGetQueryset(p)
    /\ UNCHANGED <<curated, fres, cvars>>

\* a call of get_nearest_curated_city on its own
NearestCuratedCity(city, radius) ==
    /\ qres = NoQuery
    /\ \E c \in get_nearest_curated_city(city, radius) :
          qres' = Result("resolver",
                         [city |-> city, radius |-> radius, what |-> FALSE,
                          search |-> <<>>, when |-> None],
                         {}, "none", Called(c))
    /\ UNCHANGED <<curated, fres, cvars>>

\* the response is sent and the worker takes the next request
Respond ==
    /\ qres # NoQuery
    /\ qres' = NoQuery
    /\ UNCHANGED <<curated, fres, cvars>>

(***************************************************************************)
(* EventFilter: when, since and until                                      *)
(***************************************************************************)
\* EventFilter.NOW .. EventFilter.HAPPENING_LATER (PAST_EVENTS is above)
WHEN ==
    [NOW |-> "now", TODAY |-> "today", TOMORROW |-> "tomorrow",
     WEEKEND |-> "weekend", NEXT_WEEK |-> "next-week",
     NEXT_WEEKEND |-> "next-weekend", THIS_WEEK |-> "this-week",
     HAPPENING_LATER |-> "happening-later"]

WHEN_CHOICES ==
    {WHEN.NOW, WHEN.TODAY, WHEN.TOMORROW, WHEN.THIS_WEEK, WHEN.WEEKEND,
     WHEN.NEXT_WEEK, WHEN.NEXT_WEEKEND, WHEN.HAPPENING_LATER, PAST_EVENTS}

\* timedelta(days=1), in seconds
DAY == 86400

\* timedelta(hours=23, minutes=59, seconds=59), in seconds
DAY_END == 86399

\* The clock of a request: the instant timezone.now() returns, in seconds
\* since a UTC midnight, and the weekday (Monday = 0) of that UTC day.  At
\* 05:30 UTC the two time zones of the cities are on different local days.
Clocks == [dow : 0..6, utc_now : {19800}]

\* seconds a city's local time is behind UTC
UtcOffset(city) == IF city \in {CLEARWATER, TAMPA_BAY} THEN 18000 ELSE 21600

\* core.utils.to_city_time: a naive local time of the city as an instant
to_city_time(city, t) == t + UtcOffset(city)

\* core.utils.get_city_day_start: local midnight of the city's today
get_city_day_start(city, clock) ==
    ((clock.utc_now - UtcOffset(city)) \div DAY) * DAY

\* local midnight of the Monday of the city's current local week
WeekStart(city, clock) ==
    LET day == get_city_day_start(city, clock) \div DAY
    IN  (day - ((clock.dow + day) % 7)) * DAY

\* core.utils.get_this_week / get_weekend / get_next_week /
\* get_next_weekend: Monday to Sunday, Saturday to Sunday, of this week
\* and of the next, as naive local times
get_this_week(city, clock) ==
    [lo |-> WeekStart(city, clock),
     hi |-> WeekStart(city, clock) + 6 * DAY + DAY_END]

get_weekend(city, clock) ==
    [lo |-> WeekStart(city, clock) + 5 * DAY,
     hi |-> WeekStart(city, clock) + 6 * DAY + DAY_END]

get_next_week(city, clock) ==
    [lo |-> WeekStart(city, clock) + 7 * DAY,
     hi |-> WeekStart(city, clock) + 13 * DAY + DAY_END]

get_next_weekend(city, clock) ==
    [lo |-> WeekStart(city, clock) + 12 * DAY,
     hi |-> WeekStart(city, clock) + 13 * DAY + DAY_END]

\* both ends of a window through to_city_time
CityWindow(city, w) ==
    [lo |-> to_city_time(city, w.lo), hi |-> to_city_time(city, w.hi)]

\* The events the time filters are applied to: starts on the first and the
\* last second of the local days of either time zone, ending an hour or
\* three days later.
TimedEvents ==
    {[start_date |-> d * DAY + s + o, end_date |-> d * DAY + s + o + 3600] :
        d \in (0 - 8)..15, s \in {0, DAY_END}, o \in {18000, 21600}}
    \cup
    {[start_date |-> d * DAY + 18000, end_date |-> d * DAY + 18000 + 3 * DAY] :
        d \in (0 - 3)..0}

\* a DateTimeFilter value of the cleaned form data: absent, or a time
NoTime == [given |-> FALSE, at |-> 0]

Time(t) == [given |-> TRUE, at |-> t]

\* the city, when, since and until a request may carry; since and until
\* are naive local times
TimeParams ==
    [city : {CLEARWATER, AUSTIN, UNKNOWN_CITY, None},
     when : SUBSET WHEN_CHOICES,
     since : {NoTime, Time(2 * DAY + 3600)},
     until : {NoTime, Time(3 * DAY + 36000)}]

\* A Q object over the events: the empty Q(), or the events satisfying it.
Q(events) == [empty |-> FALSE, events |-> events]

\* when_filter |= Q(...)
QOr(when_filter, events) == Q(when_filter.events \cup events)

\* queryset.filter(when_filter)
QFilter(queryset, when_filter) ==
    IF when_filter.empty THEN queryset ELSE queryset \cap when_filter.events

\* Q(start_date__range=[lo, hi])
StartRange(lo, hi) ==
    {e \in TimedEvents : lo <= e.start_date /\ e.start_date <= hi}

\* EventFilter.process_since_and_until
process_since_and_until(city, p) ==
    [since |-> IF p.since.given THEN Time(to_city_time(city, p.since.at))
               ELSE NoTime,
     until |-> IF p.until.given
               THEN Time(to_city_time(city,
                                      (p.until.at \div DAY) * DAY + DAY_END))
               ELSE NoTime]

\* the if / elif chain on since and until; only called with one of them set
DateFilter(su) ==
    IF su.since.given /\ su.until.given
    THEN StartRange(su.since.at, su.until.at)
    ELSE IF su.until.given
    THEN {e \in TimedEvents : e.start_date <= su.until.at}
    ELSE {e \in TimedEvents : e.start_date >= su.since.at}

\* a window of a whole timedelta(days=1)
DayWindowWholeDay(start) == [lo |-> start, hi |-> start + DAY]

\* start and end of filter_when: the day starting at the instant start
DayWindow(start) == [lo |-> start, hi |-> start + DAY_END]

\* "if token in value: when_filter |= Q(...)", on the events of the Q
WhenOr(when_filter, taken, events) ==
    IF taken THEN QOr(when_filter, events) ELSE when_filter

\* the past branch assigning when_filter as the now branch does
WhenPastAssign(when_filter, taken, utc_now) ==
    IF taken THEN Q({e \in TimedEvents : e.end_date <= utc_now})
    ELSE when_filter

\* "if self.PAST_EVENTS in value: when_filter |= Q(end_date__lte=utc_now)"
WhenPast(when_filter, taken, utc_now) ==
    WhenOr(when_filter, taken, {e \in TimedEvents : e.end_date <= utc_now})

\* failing closed as filter_radius does
WhenUnknownCityNone(queryset) == {}

\* the value City.objects.get(slug=...) raising DoesNotExist leaves
WhenUnknownCity(queryset) == queryset

\* EventFilter.filter_when
filter_when(queryset, p, clock) ==
    LET city == IF p.city = None THEN TAMPA_BAY ELSE p.city
        value == p.when
    IN  IF city \notin Cities THEN WhenUnknownCity(queryset)
        ELSE
        LET today == DayWindow(to_city_time(city, get_city_day_start(city, clock)))
            weekend == CityWindow(city, get_weekend(city, clock))
            next_week == CityWindow(city, get_next_week(city, clock))
            next_weekend == CityWindow(city, get_next_weekend(city, clock))
            this_week == CityWindow(city, get_this_week(city, clock))
            utc_now == clock.utc_now
            su == process_since_and_until(city, p)
            f0 == [empty |-> TRUE, events |-> {}]
            f1 == IF WHEN.NOW \in value
                  THEN Q({e \in TimedEvents :
                            e.start_date <= utc_now /\ e.end_date >= utc_now})
                  ELSE f0
            f2 == WhenOr(f1, WHEN.TODAY \in value,
                         StartRange(today.lo, today.hi))
            f3 == WhenOr(f2, WHEN.TOMORROW \in value,
                         StartRange(today.lo + DAY, today.hi + DAY))
            f4 == WhenOr(f3, WHEN.WEEKEND \in value,
                         StartRange(weekend.lo, weekend.hi))
            f5 == WhenOr(f4, WHEN.NEXT_WEEK \in value,
                         StartRange(next_week.lo, next_week.hi))
            f6 == WhenOr(f5, WHEN.NEXT_WEEKEND \in value,
                         StartRange(next_weekend.lo, next_weekend.hi))
            f7 == WhenOr(f6, WHEN.THIS_WEEK \in value,
                         StartRange(this_week.lo, this_week.hi))
            f8 == WhenOr(f7, WHEN.HAPPENING_LATER \in value,
                         {e \in TimedEvents : e.start_date >= next_weekend.hi})
            f9 == WhenPast(f8, PAST_EVENTS \in value, utc_now)
            f10 == WhenOr(f9, su.since.given \/ su.until.given, DateFilter(su))
        IN  QFilter(queryset, f10)

\* filter_until_since without its first return
UntilSinceNeverSkips(when) == FALSE

\* "if self.form.cleaned_data.get('when'): return queryset"
UntilSinceSkips(when) == when # {}

\* EventFilter.filter_until_since, the method of the filters since and
\* until; the filter set calls a method only for a value the request gives
filter_until_since(queryset, p, value) ==
    IF ~value.given THEN queryset
    ELSE IF UntilSinceSkips(p.when) THEN queryset
    ELSE IF p.city = None THEN queryset
    ELSE IF p.city \notin Cities THEN queryset
    ELSE queryset \cap DateFilter(process_since_and_until(p.city, p))

\* The filter set applies, in the order declared, the method of every
\* filter the request gives a value: when, since, until.
TimeFilters(queryset, p, clock) ==
    filter_until_since(
        filter_until_since(
            IF p.when # {} THEN filter_when(queryset, p, clock) ELSE queryset,
            p, p.since),
        p, p.until)

\* no filtered result is waiting to be returned
NoFilter == [kind |-> "idle"]

\* a request whose when, since and until filters are applied to the events
FilterTime(p, clock) ==
    /\ fres = NoFilter
    /\ fres' = [kind |-> "time", p |-> p, clock |-> clock,
                events |-> TimeFilters(TimedEvents, p, clock)]
    /\ UNCHANGED <<curated, qres, cvars>>

\* the filtered events are paginated and returned
FilterRespond ==
    /\ fres # NoFilter
    /\ fres' = NoFilter
    /\ UNCHANGED <<curated, qres, cvars>>

(***************************************************************************)
(* EventFilter: radius                                                     *)
(***************************************************************************)
\* one_mile of filter_radius, in meters
one_mile == 1609

\* The City rows of the cluster, in primary-key order; the cities outside
\* the cluster always have their row.
CityTables ==
    {t \in UNION {[1..n -> get_tampa] : n \in 1..3} :
        /\ \A i, j \in DOMAIN t : t[i] = t[j] => i = j
        /\ CLEARWATER \in Range(t)}

\* city, longitude, latitude and radius of a request; a coordinate is
\* absent (<<>>) or a position in meters on the line the points lie on
RadiusParams ==
    [city : {None, UNKNOWN_CITY, AUSTIN, CLEARWATER},
     longitude : {<<>>, <<100 * one_mile>>},
     latitude : {<<>>, <<0>>},
     radius : RADIUS_CHOICES]

\* The events the radius filter is applied to, by their point in meters:
\* every fifth mile around the cluster and around AUSTIN, and a meter on.
RadiusEvents ==
    {[point |-> 5 * k * one_mile + o] :
        k \in ((0 - 75)..85) \cup (228..252), o \in {0, 1}}

\* cities: the other rows of the cluster, which first() takes by primary key
Siblings(city, table) ==
    SelectSeq(table, LAMBDA c : c \in get_tampa /\ c # city)

\* add_miles without the division
AddNoMiles(d) == 0

\* add_miles = cities.first().distance.m / 1.999, doubled and rounded down
\* to whole meters; d is the distance in meters
AddMiles(d) == (2000 * d) \div 1999

\* longitude alone
HasLongitude(p) == p.longitude # <<>>

\* "longitude and latitude"

HasCoords(p) == p.longitude # <<>> /\ p.latitude # <<>>

\* What filter_radius does to the queryset: leaves it, empties it, or keeps
\* the events within distance of ref_point.  ref and distance are doubled,
\* which keeps the centroid of two points and the comparison of dwithin
\* exact on whole meters.
RadiusQuery(p, table) ==
    IF ~(p.city # None \/ HasCoords(p)) THEN [kind |-> "unchanged"]
    ELSE IF p.city \notin Range(table) \cup (Cities \ get_tampa)
    THEN IF HasCoords(p)
         THEN [kind |-> "within", ref |-> 2 * p.longitude[1],
               distance |-> 2 * FilterMiles(p.radius) * one_mile]
         ELSE [kind |-> "none"]
    ELSE LET cities == Siblings(p.city, table)
         IN  IF p.city \in get_tampa /\ cities # <<>>
             THEN [kind |-> "within",
                   ref |-> (point[cities[1]] + point[p.city]) * one_mile,
                   distance |-> 2 * FilterMiles(p.radius) * one_mile
                                + AddMiles(Distance(cities[1], p.city) * one_mile)]
             ELSE [kind |-> "within", ref |-> 2 * point[p.city] * one_mile,
                   distance |-> 2 * FilterMiles(p.radius) * one_mile]

\* EventFilter.filter_radius
filter_radius(queryset, p, table) ==
    LET q == RadiusQuery(p, table)
    IN  CASE q.kind = "unchanged" -> queryset
          [] q.kind = "none" -> {}
          [] q.kind = "within" ->
                {e \in queryset :
                    /\ 2 * e.point - q.ref <= q.distance
                    /\ q.ref - 2 * e.point <= q.distance}

\* a request whose radius filter is applied to the events
FilterRadius(p, table) ==
    /\ fres = NoFilter
    /\ fres' = [kind |-> "radius", p |-> p, table |-> table,
                query |-> RadiusQuery(p, table),
                events |-> filter_radius(RadiusEvents, p, table)]
    /\ UNCHANGED <<curated, qres, cvars>>

(***************************************************************************)
(* EventFilter: price_sections, is_curated and has_location                *)
(***************************************************************************)
\* EventFilter.FREE .. EventFilter.PRICE_100_plus
PRICE ==
    [FREE |-> "free", PRICE_10 |-> "price_10", PRICE_25 |-> "price_25",
     PRICE_50 |-> "price_50", PRICE_100 |-> "price_100",
     PRICE_100_plus |-> "price_100_plus"]

\* The events these filters are applied to: every set of price tags with
\* every value of the three flags; has_location TRUE stands for Event.YES.
AttrEvents ==
    [prices_available : SUBSET {PRICE[f] : f \in DOMAIN PRICE},
     is_featured : BOOLEAN, is_staff_picked : BOOLEAN, has_location : BOOLEAN]

\* the chain with price_100 missing from the last exclude
ExcludesUpToFifty(value) ==
    CASE value = PRICE.PRICE_10 -> {PRICE.FREE}
      [] value = PRICE.PRICE_25 -> {PRICE.FREE, PRICE.PRICE_10}
      [] value = PRICE.PRICE_50 -> {PRICE.FREE, PRICE.PRICE_10, PRICE.PRICE_25}
      [] value = PRICE.PRICE_100 ->
            {PRICE.FREE, PRICE.PRICE_10, PRICE.PRICE_25, PRICE.PRICE_50}
      [] value = PRICE.PRICE_100_plus ->
            {PRICE.FREE, PRICE.PRICE_10, PRICE.PRICE_25, PRICE.PRICE_50}
      [] OTHER -> {}

\* the tags named in the exclude(...) of each branch of the if / elif chain
Excludes(value) ==
    CASE value = PRICE.PRICE_10 -> {PRICE.FREE}
      [] value = PRICE.PRICE_25 -> {PRICE.FREE, PRICE.PRICE_10}
      [] value = PRICE.PRICE_50 -> {PRICE.FREE, PRICE.PRICE_10, PRICE.PRICE_25}
      [] value = PRICE.PRICE_100 ->
            {PRICE.FREE, PRICE.PRICE_10, PRICE.PRICE_25, PRICE.PRICE_50}
      [] value = PRICE.PRICE_100_plus ->
            {PRICE.FREE, PRICE.PRICE_10, PRICE.PRICE_25, PRICE.PRICE_50,
             PRICE.PRICE_100}
      [] OTHER -> {}

\* EventFilter.filter_price_sections
filter_price_sections(queryset, value) ==
    {e \in queryset :
        /\ value \in e.prices_available
        /\ e.prices_available \cap Excludes(value) = {}}

\* the curated events by is_staff_picked alone
CuratedStaffOnly(e, value) == e.is_staff_picked = value

\* Q(is_staff_picked=value) | Q(is_featured=value)
Curated(e, value) == e.is_staff_picked = value \/ e.is_featured = value

\* EventFilter.filter_has_location, the method of the filters is_curated
\* and has_location
filter_has_location(queryset, name, value) ==
    LET qs == IF name = "is_curated"
              THEN IF value THEN {e \in queryset : Curated(e, value)}
                   ELSE {e \in queryset : e.is_staff_picked = value}
              ELSE queryset
    IN  IF name = "is_curated" /\ ~value THEN qs
        ELSE IF value THEN {e \in qs : e.has_location}
        ELSE qs

\* a request whose price_sections filter is applied to the events
FilterPriceSections(value) ==
    /\ fres = NoFilter
    /\ fres' = [kind |-> "price_sections", value |-> value,
                events |-> filter_price_sections(AttrEvents, value)]
    /\ UNCHANGED <<curated, qres, cvars>>

\* a request whose is_curated or has_location filter is applied
FilterHasLocation(name, value) ==
    /\ fres = NoFilter
    /\ fres' = [kind |-> name, value |-> value,
                events |-> filter_has_location(AttrEvents, name, value)]
    /\ UNCHANGED <<curated, qres, cvars>>

(***************************************************************************)
(* EventFilter: map_radius                                                 *)
(***************************************************************************)
\* both names appended whenever one coordinate is missing
MissingBoth(p) ==
    IF p.latitude = <<>> \/ p.longitude = <<>>
    THEN <<"latitude", "longitude">> ELSE <<>>

\* fields, after "if not latitude" and "if not longitude"
MissingFields(p) ==
    (IF p.latitude = <<>> THEN <<"latitude">> ELSE <<>>)
    \o (IF p.longitude = <<>> THEN <<"longitude">> ELSE <<>>)

\* EventFilter.filter_map_radius: raises RequiredFieldValidation(fields),
\* or returns the events within map_radius miles of the reference point.
\* A coordinate of the request p is absent or empty (<<>>) or a position
\* in meters on the line the points lie on; map_radius is in miles.
filter_map_radius(queryset, p) ==
    LET fields == MissingFields(p)
    IN  IF fields # <<>> THEN [kind |-> "raise", fields |-> fields]
        ELSE [kind |-> "return",
              events |->
                {e \in queryset :
                    /\ e.point - p.longitude[1] <= p.map_radius * one_mile
                    /\ p.longitude[1] - e.point <= p.map_radius * one_mile}]

\* a request whose map_radius filter is applied to the events
FilterMapRadius(p) ==
    /\ fres = NoFilter
    /\ fres' = [kind |-> "map_radius", p |-> p,
                out |-> filter_map_radius(RadiusEvents, p)]
    /\ UNCHANGED <<curated, qres, cvars>>

(***************************************************************************)
(* EventFilter: limit among the other filters                              *)
(***************************************************************************)
\* The events the limit is applied to, in the order of the queryset
\* (ascending start_date), with the flags filter_has_location reads.
LimitEvents ==
    {[start_date |-> i, is_featured |-> FALSE, is_staff_picked |-> i % 2 = 0,
      has_location |-> i % 3 # 0] : i \in 1..6}

\* EventFilter.event_limit, queryset[:value]: the first value rows
event_limit(queryset, value) ==
    {e \in queryset :
        Cardinality({x \in queryset : x.start_date < e.start_date}) < value}

\* The filter set applies the method of every filter the request gives a
\* value, in the order of its filters: is_curated (named in Meta.fields)
\* before limit, has_location (declared after limit) after it.  A
\* parameter is absent (<<>>) or a value (<<v>>).  QuerySet.filter on a
\* queryset whose slice has been taken raises.
LimitFilters(queryset, is_curated, limit, has_location) ==
    LET qs == IF is_curated = <<>> THEN queryset
              ELSE filter_has_location(queryset, "is_curated", is_curated[1])
    IN  IF limit = <<>>
        THEN [kind |-> "return",
              events |-> IF has_location = <<>> THEN qs
                         ELSE filter_has_location(qs, "has_location",
                                                  has_location[1])]
        ELSE IF has_location = <<TRUE>> THEN [kind |-> "raise"]
        ELSE [kind |-> "return", events |-> event_limit(qs, limit[1])]

\* a request whose is_curated, limit and has_location filters are applied
FilterLimit(is_curated, limit, has_location) ==
    /\ fres = NoFilter
    /\ fres' = [kind |-> "limit", is_curated |-> is_curated, limit |-> limit,
                has_location |-> has_location,
                out |-> LimitFilters(LimitEvents, is_curated, limit,
                                     has_location)]
    /\ UNCHANGED <<curated, qres, cvars>>

(***************************************************************************)
(* EventViewSet.when: the buckets of the date tab                          *)
(***************************************************************************)
\* The events of the table that have a location: those an hour long; the
\* events three days long have none.
HasLocations(e) == e.end_date - e.start_date = 3600

\* get_events: qs.exclude(locations=None).order_by('-start_date')[:10]
get_events(qs) ==
    LET located == {e \in qs : HasLocations(e)}
    IN  {e \in located :
            Cardinality({x \in located : x.start_date > e.start_date}) < 10}

\* query_params.update({'when': token}) on the QueryDict: the value is
\* appended to the values the key already has
QueryDictUpdate(values, token) == values \cup {token}

\* The when action on a request with the parameters p.  The first update
\* finds the when values of the request in place; every later one follows
\* "del query_params['when']".  The table holds the viewable events.
when(p, clock, registered_user) ==
    LET names == (WHEN_CHOICES \ {WHEN.HAPPENING_LATER})
                    \cup (IF registered_user THEN {}
                          ELSE {WHEN.HAPPENING_LATER})
        params(name) ==
            [p EXCEPT !.when = IF name = WHEN.NOW
                               THEN QueryDictUpdate(p.when, name)
                               ELSE QueryDictUpdate({}, name)]
    IN  /\ fres = NoFilter
        /\ fres' = [kind |-> "when", p |-> p, clock |-> clock,
                    registered_user |-> registered_user,
                    results |->
                      [name \in names |->
                          get_events(TimeFilters(TimedEvents, params(name),
                                                 clock))]]
        /\ UNCHANGED <<curated, qres, cvars>>

(***************************************************************************)
(* Text search of the event view sets                                      *)
(***************************************************************************)
\* EventSearchViewSet.filter_search: full text, name prefix, substring
SearchFilterSearch(queryset, value) ==
    IF Len(value) < 3 THEN {}
    ELSE FirstNonEmpty(Matching(queryset, {"ft", "prefix"}),
         FirstNonEmpty(Matching(queryset, {"prefix"}),
                       Matching(queryset, {"ft", "prefix", "contains"})))

\* MobileEventViewSet.filter_search: full text, substring
MobileFilterSearch(queryset, value) ==
    IF Len(value) < 3 THEN {}
    ELSE FirstNonEmpty(Matching(queryset, {"ft", "prefix"}),
                       Matching(queryset, {"ft", "prefix", "contains"}))

\* A request with a search text to one of the view sets, the event table
\* holding the events that match the text in one of the given ways (and
\* the events that do not match it): search_events applies the view set's
\* filter_search to the viewable events.
FilterSearch(view, value, kinds) ==
    LET queryset == viewable(Matching(Events, kinds \cup {"none"}), FALSE)
    IN  /\ fres = NoFilter
        /\ fres' = [kind |-> "search", view |-> view, value |-> value,
                    queryset |-> queryset,
                    events |->
                      CASE view = "event" -> EventFilterSearch(queryset, value)
                        [] view = "map" -> MapFilterSearch(queryset, value)
                        [] view = "search" -> SearchFilterSearch(queryset, value)
                        [] view = "mobile" ->
                              MobileFilterSearch(
                                  {e \in queryset : e.locs # {}}, value)]
        /\ UNCHANGED <<curated, qres, cvars>>

(***************************************************************************)
(* The cache read path: seeded rows, requests, tasks, expiry               *)
(***************************************************************************)
\* A row left in NativeCache by a refresh that ran before the behaviour
\* starts, its TTL elapsed or not.
Seeded(k, s) ==
    IF s = "absent" THEN NoEntry
    ELSE [present |-> TRUE, payload |-> [k |-> k, ver |-> "v0", hl |-> FALSE],
          stale |-> (s = "stale")]

Init ==
    /\ site \in Urls
    /\ \E seed \in [SeedRows(site) -> {"absent", "fresh"}] :
          /\ cache = [k \in Keys |->
                        IF k \in SeedRows(site) THEN Seeded(k, seed[k])
                        ELSE NoEntry]
          /\ lastWrite = [k \in Keys |->
                        IF k \in SeedRows(site) THEN Seeded(k, seed[k]).payload
                        ELSE NoPayload]
    /\ queue = EmptyBag
    /\ running = EmptyBag
    /\ ver = "v0"
    /\ inflight = {}
    /\ resp = NoResp
    /\ hist = [k \in Keys |-> ZeroHist]
    /\ nreq = 0
    /\ curated = [c \in Cities |-> FALSE]
    /\ qres = NoQuery
    /\ fres = NoFilter

Next ==
    \/ \E d \in Dims : CategoriesPaginated(d)
    \/ \E d \in Dims, ok \in BOOLEAN : CategoriesPaginatedPage(d, ok)
    \/ \E d \in Dims, ru \in BOOLEAN, ok \in BOOLEAN : WhenPaginated(d, ru, ok)
    \/ \E d \in Dims, ok \in BOOLEAN : PricesPaginated(d, ok)
    \/ \E d \in Dims, c \in BOOLEAN, cr \in BOOLEAN, pg \in BOOLEAN,
          ok \in BOOLEAN : SectionList(d, c, cr, pg, ok)
    \/ \E d \in Dims, ok \in BOOLEAN : SectionMobile(d, ok)
    \/ \E d \in Dims, cr \in BOOLEAN, ok \in BOOLEAN : SectionDesktop(d, cr, ok)
    \/ \E d \in Dims, c \in BOOLEAN, cr \in BOOLEAN, pg \in BOOLEAN,
          ok \in BOOLEAN : StateSectionList(d, c, cr, pg, ok)
    \/ \E t \in BagToSet(queue) : TaskStart(t)
    \/ \E r \in BagToSet(running) : TaskWrite(r)
    \/ \E k \in Keys : Expire(k)
    \/ DataChange

Spec == Init /\ [][Next]_vars

(***************************************************************************)
(* The query path on its own: any curation of the cities, then requests    *)
(***************************************************************************)
InitQ ==
    /\ curated \in [Cities -> BOOLEAN]
    /\ qres = NoQuery
    /\ fres = NoFilter
    /\ site = URL_SECTIONS
    /\ cache = [k \in Keys |-> NoEntry]
    /\ lastWrite = [k \in Keys |-> NoPayload]
    /\ queue = EmptyBag
    /\ running = EmptyBag
    /\ ver = "v0"
    /\ inflight = {}
    /\ resp = NoResp
    /\ hist = [k \in Keys |-> ZeroHist]
    /\ nreq = 0

NextQ ==
    \/ \E p \in Params : EventList(p)
    \/ \E p \in Params : MapList(p)
    \/ \E city \in Cities, radius \in RADIUS_CHOICES \cup {None} :
          NearestCuratedCity(city, radius)
    \/ Respond

SpecQuery == InitQ /\ [][NextQ]_vars

(***************************************************************************)
(* The filter methods on their own                                         *)
(***************************************************************************)
InitF ==
    /\ fres = NoFilter
    /\ curated = [c \in Cities |-> FALSE]
    /\ qres = NoQuery
    /\ site = URL_SECTIONS
    /\ cache = [k \in Keys |-> NoEntry]
    /\ lastWrite = [k \in Keys |-> NoPayload]
    /\ queue = EmptyBag
    /\ running = EmptyBag
    /\ ver = "v0"
    /\ inflight = {}
    /\ resp = NoResp
    /\ hist = [k \in Keys |-> ZeroHist]
    /\ nreq = 0

\* a filter is applied only once the previous result has been returned
NextF ==
    \/ fres = NoFilter /\ \E p \in TimeParams, clock \in Clocks : FilterTime(p, clock)
    \/ fres = NoFilter /\ \E p \in RadiusParams, table \in CityTables : FilterRadius(p, table)
    \/ \E value \in {PRICE[f] : f \in DOMAIN PRICE} : FilterPriceSections(value)
    \/ \E name \in {"is_curated", "has_location"}, value \in BOOLEAN :
          FilterHasLocation(name, value)
    \/ fres = NoFilter
       /\ \E view \in {"event", "map", "search", "mobile"},
             value \in {<<"r", "o">>, <<"j", "a", "z">>, <<"r", "o", "c", "k">>},
             kinds \in SUBSET (Matches \ {"none"}) :
             FilterSearch(view, value, kinds)
    \/ \E p \in [latitude : {<<>>, <<0>>},
                  longitude : {<<>>, <<0>>, <<100 * one_mile>>},
                  map_radius : {5, 25, 100}] : FilterMapRadius(p)
    \/ \E is_curated, has_location \in {<<>>, <<TRUE>>, <<FALSE>>},
          limit \in {<<>>, <<1>>, <<2>>, <<10>>} :
          FilterLimit(is_curated, limit, has_location)
    \/ fres = NoFilter
       /\ \E p \in [city : {CLEARWATER, AUSTIN, None},
                     when : {{}, {WHEN.TODAY}, {WHEN.TOMORROW, WHEN.WEEKEND}},
                     since : {NoTime}, until : {NoTime}],
             clock \in Clocks, registered_user \in BOOLEAN :
             when(p, clock, registered_user)
    \/ FilterRespond

SpecFilter == InitF /\ [][NextF]_vars

(***************************************************************************)
(* Claims on the NativeCache read path (properties of Spec)               *)
(***************************************************************************)
\* The reads of the last response that found their row in state f, in a
\* request the page cache did not answer and whose dispatch did not raise.
ReadsFound(f) == {r \in resp.reads : r.f = f /\ ~resp.failed}

\* C1: on every cached endpoint a read that finds a stale row returns the
\* stored payload unchanged and dispatches a refresh task for the same key.
C1_StaleReadServesStored ==
    \A r \in ReadsFound("stale") :
        r.k.url = resp.ep =>
            /\ resp.src = "cache"
            /\ resp.body = r.stored
            /\ r.sent

\* C2: a read that finds a fresh row returns exactly the stored payload,
\* which is the payload of the last completed write of that key, and
\* dispatches no refresh task.
C2_FreshReadServesStored ==
    \A r \in resp.reads :
        r.f = "fresh" =>
            /\ ~resp.failed
            /\ resp.src = "cache"
            /\ resp.body = r.stored
            /\ resp.body = lastWrite[r.k]
            /\ ~r.sent
            /\ r.k \notin resp.sent
            /\ (r.k.url = resp.ep => resp.sent = {})

\* A row written during the behaviour is read fresh after the data changed:
\* the response is the written payload, not what the live data would give.
C2_Witness ==
    \E r \in resp.reads :
        /\ r.f = "fresh"
        /\ r.k.d = "d2"
        /\ resp.body = r.stored
        /\ r.stored.ver # resp.dv

\* C3: on every cached endpoint a read that does not find its row
\* dispatches a task computing that row.
C3_MissReadDispatches ==
    \A r \in ReadsFound("miss") : r.sent /\ r.k \in resp.sent

\* C4 as stated: a read that does not find its row answers with a stored
\* general default or with an empty result, never with a result computed
\* within the request.
C4_MissReadServesDefaultOrEmpty ==
    \A r \in ReadsFound("miss") :
        r.k.url = resp.ep => resp.src \in {"default", "empty"}

\* C4 amended: a read that does not find its row answers from the view's
\* uncached path: the result computed within the request from the live
\* data; for the state sections list that path is SectionViewSet.list,
\* whose page cache or whose sections row may answer instead.
C4_MissReadServesSync ==
    \A r \in ReadsFound("miss") :
        \/ /\ resp.src = "sync"
           /\ resp.body.k = Key(resp.ep, resp.d)
           /\ resp.body.ver = resp.dv
        \/ /\ resp.ep = URL_STATE
           /\ r.k.url = URL_STATE
           /\ resp.src = "page"
        \/ /\ resp.ep = URL_STATE
           /\ r.k.url = URL_STATE
           /\ resp.src = "cache"
           /\ \E r2 \in resp.reads :
                 r2.k.url = URL_SECTIONS /\ r2.f # "miss" /\ resp.body = r2.stored

C4_Witness ==
    \E r \in resp.reads :
        /\ r.f = "miss"
        /\ r.sent
        /\ resp.src = "sync"
        /\ resp.body.ver = "v1"

\* C5 as stated: within one staleness window of a key, the requests that
\* read it stale dispatch one refresh task in all.
C5_OneDispatchPerWindow == \A k \in Keys : hist[k].disp <= 1

\* C5 amended: every request that reads a key stale calls the dispatch of
\* its refresh once, so n such reads in one staleness window enqueue n
\* tasks (fewer only by the dispatches that raised).
C5_OneDispatchPerStaleRead ==
    /\ \A k \in Keys : hist[k].disp + hist[k].failed = hist[k].reads
    /\ \A r \in ReadsFound("stale") : r.sent /\ r.k \in resp.sent

C5_Witness ==
    \E k \in Keys :
        /\ hist[k].reads = 2
        /\ hist[k].disp = 2
        /\ BagCardinality(queue) + BagCardinality(running) = 2

\* C6: whatever the interleaving of the refresh writes, the row of a key
\* holds the payload of the last write completed for it, and a refresh
\* dispatched by a read of a key writes that key's row only.
C6_LastWriteWins ==
    /\ \A k \in Keys :
          IF cache[k].present THEN cache[k].payload = lastWrite[k]
          ELSE lastWrite[k] = NoPayload
    /\ \A k \in Keys : cache[k].present => cache[k].payload.k = k
    /\ \A t \in BagToSet(queue) \cup BagToSet(running) : t.k = t.origin

\* Two refreshes of one key overlap: one has written, the other still
\* holds a different payload.
C6_Witness ==
    \E r \in BagToSet(running) :
        /\ r.k.d = "d2"
        /\ cache[r.k].present
        /\ cache[r.k].payload # r.payload

\* C7: when dispatching the refresh task raises, the request still
\* answers, with the stored payload or with an empty result.
C7_DispatchFailureStillServes ==
    resp.failed =>
        /\ resp.src \in {"cache", "empty"}
        /\ \A r \in resp.reads : r.f # "miss" => resp.body = r.stored

(***************************************************************************)
(* Claims on the query path (properties of SpecQuery)                     *)
(***************************************************************************)
\* the radius get_queryset hands to the resolver for the last request
RequestRadius ==
    IF qres.view = "event" /\ qres.p.radius = None THEN HUNDRED_PLUS_MILE
    ELSE qres.p.radius

\* the last step answered a list request on an existing, uncurated city
OnUncuratedCity ==
    /\ qres.view \in {"event", "map"}
    /\ qres.p.city \in Cities
    /\ ~curated[qres.p.city]

\* the events the request's viewable() call lets through
ViewableForRequest == viewable(Events, qres.p.when = PAST_EVENTS)

\* the request narrows the listing by neither a searched text nor "what"
PlainListing == ~is_search(qres.p) /\ ~qres.p.what

\* C8: on an uncurated city for which the resolver yields at least one
\* candidate, get_queryset keeps the featured / staff-picked events located
\* in the nearest candidate and excludes those located in any other
\* candidate.
C8_NearestKeptOthersExcluded ==
    OnUncuratedCity =>
        \E c \in get_nearest_curated_city(qres.p.city, RequestRadius) :
            \/ ~c.resolved
            \/ c.cities = <<>>
            \/ LET nearest == Head(c.cities)
                   others == Range(Tail(c.cities))
               IN  /\ PlainListing =>
                         \A e \in ViewableForRequest :
                            (Promoted(e) /\ e.locs = {nearest}) => e \in qres.events
                   /\ \A e \in qres.events :
                         ~(Promoted(e) /\ e.locs \cap others # {})

\* C9: on an existing uncurated city outside the metro cluster with no
\* curated city within the requested radius, the result holds no featured
\* and no staff-picked event, and holds every viewable event with both
\* flags false.
C9_NoCuratedNearbyHidesPromoted ==
    ( /\ OnUncuratedCity
      /\ qres.view = "event"
      /\ qres.p.city \notin get_tampa
      /\ \A c \in Cities :
            curated[c] =>
                Distance(qres.p.city, c) >
                    (IF RequestRadius \in ResolverTokens
                     THEN ResolverMiles(RequestRadius)
                     ELSE FilterMiles(RequestRadius)) )
    => /\ \A e \in qres.events : ~Promoted(e)
       /\ PlainListing =>
             \A e \in ViewableForRequest : ~Promoted(e) => e \in qres.events

\* C10: get_nearest_curated_city maps the radius token to its mile bound
\* and returns exactly the curated cities within that bound of the city,
\* nearest first; when there is none and the city is in the metro cluster
\* it returns the cluster's anchor city.
C10_ResolverReturnsCuratedWithinBound ==
    (qres.view = "resolver" /\ qres.p.radius \in RADIUS_CHOICES) =>
        LET city == qres.p.city
            bound == IF qres.p.radius \in ResolverTokens
                     THEN ResolverMiles(qres.p.radius)
                     ELSE FilterMiles(qres.p.radius)
            within == {c \in Cities : curated[c] /\ Distance(city, c) <= bound}
        IN  IF within = {} /\ city \in get_tampa
            THEN qres.cands.cities = <<TAMPA_BAY>>
            ELSE qres.cands.cities \in OrderByDistance(city, within)

(***************************************************************************)
(* Claims on the filter methods (properties of SpecFilter)                 *)
(***************************************************************************)
\* the last step applied the time filters for a city that exists
TimeOnKnownCity ==
    /\ fres.kind = "time"
    /\ fres.p.city # UNKNOWN_CITY

\* the city whose calendar the when filter uses
WhenCity == IF fres.p.city = None THEN TAMPA_BAY ELSE fres.p.city

\* the city's local day start as an instant
TodayStart == to_city_time(WhenCity, get_city_day_start(WhenCity, fres.clock))

\* the window the named utility gives for a token, as instants
TokenWindow(t) ==
    CityWindow(WhenCity,
               CASE t = WHEN.WEEKEND -> get_weekend(WhenCity, fres.clock)
                 [] t = WHEN.NEXT_WEEK -> get_next_week(WhenCity, fres.clock)
                 [] t = WHEN.NEXT_WEEKEND -> get_next_weekend(WhenCity, fres.clock)
                 [] t = WHEN.THIS_WEEK -> get_this_week(WhenCity, fres.clock))

\* the predicate of one when token on an event
TokenMatches(t, e) ==
    CASE t = WHEN.NOW ->
            e.start_date <= fres.clock.utc_now /\ fres.clock.utc_now <= e.end_date
      [] t = WHEN.TODAY ->
            TodayStart <= e.start_date /\ e.start_date <= TodayStart + DAY_END
      [] t = WHEN.TOMORROW ->
            /\ TodayStart + DAY <= e.start_date
            /\ e.start_date <= TodayStart + DAY + DAY_END
      [] t = WHEN.HAPPENING_LATER -> e.start_date >= TokenWindow(WHEN.NEXT_WEEKEND).hi
      [] t = PAST_EVENTS -> e.end_date <= fres.clock.utc_now
      [] OTHER ->
            /\ TokenWindow(t).lo <= e.start_date
            /\ e.start_date <= TokenWindow(t).hi

AnyTokenMatches(e) == \E t \in fres.p.when : TokenMatches(t, e)

\* the since / until range of the request on start_date
RangeMatches(e) ==
    LET su == process_since_and_until(WhenCity, fres.p)
    IN  /\ su.since.given => e.start_date >= su.since.at
        /\ su.until.given => e.start_date <= su.until.at

NoRange == ~fres.p.since.given /\ ~fres.p.until.given

\* C11: for any non-empty set of when tokens, filter_when keeps an event
\* iff it satisfies the predicate of at least one selected token, whatever
\* the combination, those with now included.
C11_WhenKeepsUnion ==
    (TimeOnKnownCity /\ fres.p.when # {} /\ NoRange) =>
        fres.events = {e \in TimedEvents : AnyTokenMatches(e)}

\* now with two more tokens: one event kept by now alone, one by another
\* token alone
C11_Witness ==
    /\ TimeOnKnownCity /\ NoRange
    /\ WHEN.NOW \in fres.p.when
    /\ Cardinality(fres.p.when) >= 3
    /\ \E e \in fres.events :
          TokenMatches(WHEN.NOW, e) /\ \A t \in fres.p.when \ {WHEN.NOW} : ~TokenMatches(t, e)
    /\ \E e \in fres.events : ~TokenMatches(WHEN.NOW, e)
    /\ fres.events # TimedEvents

\* C12: for today (tomorrow) an event matches iff its start lies in the
\* closed interval from the city's local day start (a day later) to that
\* instant plus 23:59:59; a start at 23:59:59 matches, one second later not.
C12_DayWindowsClosed ==
    \A t \in {WHEN.TODAY, WHEN.TOMORROW} :
        (TimeOnKnownCity /\ fres.p.when = {t} /\ NoRange) =>
            LET lo == IF t = WHEN.TODAY THEN TodayStart ELSE TodayStart + DAY
            IN  /\ fres.events =
                      {e \in TimedEvents :
                          lo <= e.start_date /\ e.start_date <= lo + DAY_END}
                /\ \A e \in TimedEvents :
                      /\ e.start_date = lo + DAY_END => e \in fres.events
                      /\ e.start_date = lo + DAY_END + 1 => e \notin fres.events

\* tomorrow alone: an event starting on the last second of the day is
\* kept, one starting a second later exists and is dropped
C12_Witness ==
    /\ TimeOnKnownCity /\ NoRange
    /\ fres.p.when = {WHEN.TOMORROW}
    /\ \E e \in fres.events : e.start_date = TodayStart + DAY + DAY_END
    /\ \E e \in TimedEvents \ fres.events :
          e.start_date = TodayStart + DAY + DAY_END + 1

\* C13: with when tokens and since and / or until, the events kept are
\* those matching a selected token or the since / until range; the range
\* is not applied as a further conjunct.
C13_RangeJoinsUnion ==
    (TimeOnKnownCity /\ fres.p.when # {} /\ ~NoRange) =>
        fres.events =
            {e \in TimedEvents : AnyTokenMatches(e) \/ RangeMatches(e)}

\* an event kept by a token although outside the range, and one kept by
\* the range although no token matches it
C13_Witness ==
    /\ TimeOnKnownCity /\ fres.p.when # {}
    /\ fres.p.since.given /\ fres.p.until.given
    /\ \E e \in fres.events : AnyTokenMatches(e) /\ ~RangeMatches(e)
    /\ \E e \in fres.events : ~AnyTokenMatches(e) /\ RangeMatches(e)
    /\ fres.events # TimedEvents

\* C14: when the city slug names no existing city, filter_when and
\* filter_until_since return the events they were given, unchanged.
C14_UnknownCityUnchanged ==
    (fres.kind = "time" /\ fres.p.city = UNKNOWN_CITY) =>
        fres.events = TimedEvents

C14_Witness ==
    /\ fres.kind = "time"
    /\ fres.p.city = UNKNOWN_CITY
    /\ fres.p.when = {WHEN.TODAY, PAST_EVENTS}
    /\ fres.p.since.given
    /\ fres.events = TimedEvents

\* the nominal mile bound of a radius token
NominalMiles(r) ==
    CASE r = FIVE_MILE -> 5
      [] r = TWENTY_FIVE_MILE -> 25
      [] r = FIFTY_MILE -> 50
      [] r = HUNDRED_MILE -> 100
      [] r = HUNDRED_PLUS_MILE -> 150
      [] r = ONE_HUNDRED_FIFTY_MILE -> 150
      [] r = TWO_HUNDRED_MILE -> 200
      [] r = TWO_HUNDRED_FIFTY_MILE -> 250
      [] r = THREE_HUNDRED_MILE -> 300
      [] r = THREE_HUNDRED_FIFTY_MILE -> 350

\* the request of the last step carries both coordinates
BothCoords == fres.p.longitude # <<>> /\ fres.p.latitude # <<>>

\* the events within miles of the position at, in meters
WithinMiles(at, miles) ==
    {e \in RadiusEvents :
        /\ e.point - at <= miles * one_mile
        /\ at - e.point <= miles * one_mile}

\* C15: filter_radius returns its input unchanged when the request has
\* neither a city nor both coordinates, returns nothing when the city slug
\* names no city and the coordinates are not both given, and measures from
\* the coordinates when the slug names no city and both are given.
C15_RadiusFallbacks ==
    fres.kind = "radius" =>
        /\ (fres.p.city = None /\ ~BothCoords) => fres.events = RadiusEvents
        /\ (fres.p.city = UNKNOWN_CITY /\ ~BothCoords) => fres.events = {}
        /\ (fres.p.city = UNKNOWN_CITY /\ BothCoords) =>
              fres.events =
                  WithinMiles(fres.p.longitude[1], NominalMiles(fres.p.radius))

\* an unknown slug with both coordinates: some events are kept, some dropped
C15_Witness ==
    /\ fres.kind = "radius"
    /\ fres.p.city = UNKNOWN_CITY /\ BothCoords
    /\ fres.p.radius = FIFTY_MILE
    /\ fres.events # {}
    /\ fres.events # RadiusEvents
    /\ \E e \in fres.events : e.point = 150 * one_mile

\* the result of the last request had it carried the radius token r
ResultFor(r) ==
    filter_radius(RadiusEvents, [fres.p EXCEPT !.radius = r], fres.table)

\* C16: for a fixed reference point and event set, the result for a radius
\* token is contained in the result for every token of an equal or larger
\* mile bound, mile-100-plus counting as 150 miles.
C16_RadiusMonotonic ==
    fres.kind = "radius" =>
        LET res == [r \in RADIUS_CHOICES |-> ResultFor(r)]
        IN  /\ fres.events = res[fres.p.radius]
            /\ \A r1, r2 \in RADIUS_CHOICES :
                  NominalMiles(r1) <= NominalMiles(r2) => res[r1] \subseteq res[r2]

\* mile-100-plus at a cluster city: more than mile-100 keeps, all that
\* mile-150 keeps, less than mile-200 keeps
C16_Witness ==
    /\ fres.kind = "radius"
    /\ fres.p.radius = HUNDRED_PLUS_MILE
    /\ fres.p.city = CLEARWATER
    /\ Len(fres.table) = 3
    /\ fres.events = ResultFor(ONE_HUNDRED_FIFTY_MILE)
    /\ ResultFor(HUNDRED_MILE) \subseteq fres.events
    /\ ResultFor(HUNDRED_MILE) # fres.events
    /\ fres.events # ResultFor(TWO_HUNDRED_MILE)

\* the last step applied the radius filter for a city of the cluster
RadiusOnClusterCity ==
    /\ fres.kind = "radius"
    /\ fres.p.city \in get_tampa
    /\ fres.p.city \in Range(fres.table)

\* the other cluster cities the City table holds
OtherClusterCities == Range(fres.table) \ {fres.p.city}

\* the nominal bound of the request's token, doubled, in meters
NominalBound == 2 * NominalMiles(fres.p.radius) * one_mile

\* C17 as stated: for every city of the cluster and every radius token the
\* bound filter_radius uses is strictly greater than the nominal bound.
C17_ClusterBoundExceedsNominal ==
    RadiusOnClusterCity =>
        /\ fres.query.kind = "within"
        /\ fres.query.distance > NominalBound

\* C17: for a city of the cluster that has another cluster city in the
\* City table, and every radius token, the bound filter_radius uses is
\* strictly greater than the nominal bound, by an amount the City table
\* determines; with no other cluster city the nominal bound is used.
C17_BoundExceedsNominalWithSibling ==
    RadiusOnClusterCity =>
        /\ fres.query.kind = "within"
        /\ fres.query = RadiusQuery(fres.p, fres.table)
        /\ OtherClusterCities # {} =>
              /\ fres.query.distance > NominalBound
              /\ \E c \in OtherClusterCities :
                    (fres.query.distance - NominalBound) * 1999
                        \in (2000 * Distance(c, fres.p.city) * one_mile - 1998)
                            .. (2000 * Distance(c, fres.p.city) * one_mile)
        /\ OtherClusterCities = {} => fres.query.distance = NominalBound

\* a cluster city with two others: an event beyond the nominal bound is kept
C17_Witness ==
    /\ RadiusOnClusterCity
    /\ Cardinality(OtherClusterCities) = 2
    /\ fres.p.radius = TWENTY_FIVE_MILE
    /\ fres.query.distance > NominalBound
    /\ \E e \in fres.events :
          e.point - point[fres.p.city] * one_mile > 25 * one_mile

\* the cluster city nearest to the request's city
NearestSibling ==
    CHOOSE c \in OtherClusterCities :
        \A d \in OtherClusterCities :
            Distance(c, fres.p.city) <= Distance(d, fres.p.city)

\* C18: for a cluster city with another cluster city, the reference point
\* is the centroid of the city and the cluster city nearest to it, and the
\* added distance is that nearest city's distance divided by 1.999.
C18_CentroidWithNearestSibling ==
    (RadiusOnClusterCity /\ OtherClusterCities # {}) =>
        /\ fres.query.ref =
              (point[fres.p.city] + point[NearestSibling]) * one_mile
        /\ (fres.query.distance - NominalBound) * 1999
              \in (2000 * Distance(NearestSibling, fres.p.city) * one_mile - 1998)
                  .. (2000 * Distance(NearestSibling, fres.p.city) * one_mile)

\* the six tiers from the lowest to the highest
Tiers ==
    <<PRICE.FREE, PRICE.PRICE_10, PRICE.PRICE_25, PRICE.PRICE_50,
      PRICE.PRICE_100, PRICE.PRICE_100_plus>>

\* the tags of e hold the tier Tiers[i] and none strictly below it
LowestTier(e, i) ==
    /\ Tiers[i] \in e.prices_available
    /\ \A j \in 1..(i - 1) : Tiers[j] \notin e.prices_available

\* the tiers whose price_sections bucket holds e
Buckets(e) ==
    {i \in 1..6 : e \in filter_price_sections(AttrEvents, Tiers[i])}

\* C19: an event matches price_sections=T iff its price tags hold T and no
\* tier strictly below T; so every event is in at most one of the six
\* buckets, and an event with exactly one tag is in that tier's bucket.
C19_PriceSectionsLowestTier ==
    fres.kind = "price_sections" =>
        /\ \E i \in 1..6 :
              /\ fres.value = Tiers[i]
              /\ fres.events = {e \in AttrEvents : LowestTier(e, i)}
        /\ \A e \in AttrEvents :
              /\ Cardinality(Buckets(e)) <= 1
              /\ \A i \in 1..6 :
                    e.prices_available = {Tiers[i]} => Buckets(e) = {i}

\* the highest tier: kept with that tag alone, dropped with price_100 too
C19_Witness ==
    /\ fres.kind = "price_sections"
    /\ fres.value = PRICE.PRICE_100_plus
    /\ \E e \in fres.events : e.prices_available = {PRICE.PRICE_100_plus}
    /\ \E e \in AttrEvents \ fres.events :
          e.prices_available = {PRICE.PRICE_100, PRICE.PRICE_100_plus}

\* C20 as stated: is_curated=true keeps exactly the events staff-picked or
\* featured, is_curated=false exactly those not staff-picked, has_location
\* bearing on neither.
C20_CuratedIgnoresLocation ==
    fres.kind = "is_curated" =>
        /\ fres.value =>
              fres.events =
                  {e \in AttrEvents : e.is_staff_picked \/ e.is_featured}
        /\ ~fres.value =>
              fres.events = {e \in AttrEvents : ~e.is_staff_picked}

\* C20: is_curated=true keeps exactly the events staff-picked or featured
\* that also have has_location set; is_curated=false keeps exactly those
\* not staff-picked, whatever their has_location.
C20_CuratedTrueNeedsLocation ==
    fres.kind = "is_curated" =>
        /\ fres.value =>
              fres.events =
                  {e \in AttrEvents :
                      (e.is_staff_picked \/ e.is_featured) /\ e.has_location}
        /\ ~fres.value =>
              fres.events = {e \in AttrEvents : ~e.is_staff_picked}

\* is_curated=true: a featured event with a location is kept, a
\* staff-picked one without is dropped
C20_Witness ==
    /\ fres.kind = "is_curated"
    /\ fres.value
    /\ \E e \in fres.events :
          e.is_featured /\ ~e.is_staff_picked /\ e.has_location
    /\ \E e \in AttrEvents \ fres.events :
          e.is_staff_picked /\ ~e.has_location

(***************************************************************************)
(* Claims on the text search (properties of SpecFilter)                    *)
(***************************************************************************)
\* the four stages of the search, by the ways a text matches an event
SearchStages(queryset) ==
    <<{e \in queryset : e.match \in {"ft", "prefix"}},
      {e \in queryset : e.match = "prefix"},
      {e \in queryset : e.match \in {"ft", "prefix", "trigram"}},
      {e \in queryset : e.match \in {"ft", "prefix", "contains"}}>>

\* the result of the first stage that is not empty, of the last otherwise
FirstStage(stages) ==
    IF \E i \in DOMAIN stages : stages[i] # {}
    THEN stages[CHOOSE i \in DOMAIN stages :
                    stages[i] # {} /\ \A j \in 1..(i - 1) : stages[j] = {}]
    ELSE {}

\* C21: for a search text of three characters or more, the list and the
\* map view set return the result of the first non-empty stage of: phrase
\* full text or name prefix, name prefix, trigram similarity, substring.
C21_FourStagesInOrder ==
    (fres.kind = "search" /\ fres.view \in {"event", "map"}
        /\ Len(fres.value) >= 3)
    => fres.events = FirstStage(SearchStages(fres.queryset))

\* C22: a search text shorter than three characters gives an empty result
\* on every view set that searches events, whatever the events match.
C22_ShortSearchEmpty ==
    (fres.kind = "search" /\ Len(fres.value) < 3) => fres.events = {}

C22_Witness ==
    /\ fres.kind = "search"
    /\ Len(fres.value) = 2
    /\ \E e \in fres.queryset : e.match = "ft"
    /\ fres.events = {}

(***************************************************************************)
(* Claims on ordering, curation and the resolver (properties of SpecQuery) *)
(***************************************************************************)
\* C23: the queryset get_queryset returns on the list and the map endpoint
\* is ordered by ascending start_date, and by descending end_date when the
\* request asks for past events.
C23_DefaultAndPastOrdering ==
    qres.view \in {"event", "map"} =>
        qres.order = (IF qres.p.when = PAST_EVENTS THEN "-end_date"
                      ELSE "start_date")

\* C27: on an existing uncurated city for which the resolver yields no
\* candidate, EventViewSet.get_queryset returns no featured or staff-picked
\* event and no event that is not viewable, whatever else the request
\* carries.
C27_NoCandidateNeverPromoted ==
    ( /\ OnUncuratedCity
      /\ qres.view = "event"
      /\ \A c \in get_nearest_curated_city(qres.p.city, RequestRadius) :
            ~c.resolved )
    => \A e \in qres.events : ~Promoted(e) /\ e \in ViewableForRequest

\* C29: for an uncurated city with a curated city within the requested
\* radius, the resolver returns a curated city within that radius, for
\* every radius token the radius filter accepts.
C29_ResolverAcceptsEveryToken ==
    ( /\ qres.view = "resolver"
      /\ qres.p.radius \in RADIUS_CHOICES
      /\ qres.p.city \in Cities
      /\ ~curated[qres.p.city]
      /\ \E c \in Cities :
            curated[c] /\ Distance(qres.p.city, c) <= FilterMiles(qres.p.radius) )
    => /\ qres.cands.resolved
       /\ curated[qres.cands.cities[1]]
       /\ Distance(qres.p.city, qres.cands.cities[1])
              <= FilterMiles(qres.p.radius)

(***************************************************************************)
(* Claims on since and until without when (properties of SpecFilter)       *)
(***************************************************************************)
\* the since / until range of the request on start_date, read as local
\* times of the given city
RangeMatchesIn(city, e) ==
    LET su == process_since_and_until(city, fres.p)
    IN  /\ su.since.given => e.start_date >= su.since.at
        /\ su.until.given => e.start_date <= su.until.at

\* C30: with since and / or until and no when token, every event kept
\* starts within the supplied range (in the time zone of the request's
\* city, or of some city when the request names none), with a city
\* parameter or without.
C30_RangeAppliesWithoutWhen ==
    ( /\ fres.kind = "time"
      /\ fres.p.when = {}
      /\ ~NoRange
      /\ fres.p.city # UNKNOWN_CITY )
    => \A e \in fres.events :
          IF fres.p.city = None
          THEN \E c \in Cities : RangeMatchesIn(c, e)
          ELSE RangeMatchesIn(fres.p.city, e)

(***************************************************************************)
(* Claims on the bucket list of when_paginated (properties of Spec)        *)
(***************************************************************************)
\* C28: the response of when_paginated to a request with
\* registered_user=true never holds the happening-later bucket, whatever
\* requests and refreshes came before on the same key.
C28_RegisteredNeverLater ==
    [][\A d \in Dims, ok \in BOOLEAN :
          WhenPaginated(d, TRUE, ok) => ~resp'.body.hl]_vars

(***************************************************************************)
(* Claims on map_radius (properties of SpecFilter)                         *)
(***************************************************************************)
\* the coordinates the request leaves out
MissingNames ==
    {n \in {"latitude", "longitude"} : fres.p[n] = <<>>}

\* C26: filter_map_radius without latitude or without longitude raises
\* RequiredFieldValidation with exactly the names of the missing
\* coordinates and returns no events.
C26_MapRadiusRequiresCoords ==
    (fres.kind = "map_radius" /\ MissingNames # {}) =>
        /\ fres.out.kind = "raise"
        /\ Range(fres.out.fields) = MissingNames
        /\ Len(fres.out.fields) = Cardinality(MissingNames)

\* one coordinate given and the other missing
C26_Witness ==
    /\ fres.kind = "map_radius"
    /\ fres.p.latitude # <<>>
    /\ fres.p.longitude = <<>>
    /\ fres.out.kind = "raise"
    /\ fres.out.fields = <<"longitude">>

(***************************************************************************)
(* Claims on limit (properties of SpecFilter)                              *)
(***************************************************************************)
\* the events every filter of the request but limit keeps
OtherFiltersKeep ==
    {e \in LimitEvents :
        /\ fres.is_curated = <<TRUE>> =>
              (e.is_staff_picked \/ e.is_featured) /\ e.has_location
        /\ fres.is_curated = <<FALSE>> => ~e.is_staff_picked
        /\ fres.has_location = <<TRUE>> => e.has_location}

\* C24: with limit=N the result is the first N rows, in the queryset's
\* order, of the events all the other filters of the request keep.
C24_LimitAppliedLast ==
    (fres.kind = "limit" /\ fres.limit # <<>>) =>
        /\ fres.out.kind = "return"
        /\ fres.out.events =
              {e \in OtherFiltersKeep :
                  Cardinality({x \in OtherFiltersKeep :
                                  x.start_date < e.start_date})
                      < fres.limit[1]}

(***************************************************************************)
(* Claims on the when action (properties of SpecFilter)                    *)
(***************************************************************************)
\* the located events matching the one token, the ten latest starts of them
BucketOf(name) ==
    LET m == {e \in TimedEvents :
                TokenMatches(name, e) /\ e.end_date - e.start_date = 3600}
    IN  {e \in m : Cardinality({x \in m : x.start_date > e.start_date}) < 10}

\* C25: every bucket of the when action holds the events the pipeline
\* keeps with when set to the bucket's token alone, also when the request
\* carried a when parameter: at most ten, the latest starts first, none
\* without a location.
C25_BucketsUseOwnTokenOnly ==
    fres.kind = "when" =>
        \A name \in DOMAIN fres.results :
            /\ fres.results[name] = BucketOf(name)
            /\ Cardinality(fres.results[name]) <= 10

=============================================================================
